---- MODULE Spec2Model ----
(***************************************************************************)
(* State-machine model of the food-lover review server (src/index.js).     *)
(* The Express process, the two MongoDB collections it talks to, and the   *)
(* requests that are between two storage awaits.  src/unnamed/part_000 is   *)
(* the async/await form of the review routes, with the same behaviour.     *)
(* The storage starts empty and its operations succeed once issued; what   *)
(* fails is what the process does around them.                             *)
(***************************************************************************)
EXTENDS Integers, Sequences, FiniteSets

\* ------------------------------------------------------------- bounds
MaxReviews == 2      \* ObjectIds the storage hands out to reviews
MaxFavorites == 2    \* ObjectIds the storage hands out to favorites
MaxRequests == 2     \* POST /favorites requests that may be in flight together

\* --------------------------------------------------- program constants
TopLimit == 6        \* .limit(6)
RatingMin == 0       \* isInt({ min: 0, ... })
RatingMax == 5       \* isInt({ ..., max: 5 })

VARIABLES
    proc,            \* "running" | "exited": the node process
    dbpc,            \* position of connectDB's promise chain
    handles,         \* "unset" | "bound": reviewCollection, favoritesCollection
    reviews,         \* the reviews collection: _id -> document
    nextReviewId,    \* next _id the storage generates for a review
    favorites,       \* the favorites collection: _id -> document
    nextFavoriteId,  \* next _id the storage generates for a favorite
    postFav,         \* slot -> state of a POST /favorites promise chain
    getFav,          \* state of the GET /favorites/:email promise chain
    resp             \* the request most recently worked on and its response

vars == <<proc, dbpc, handles, reviews, nextReviewId, favorites,
          nextFavoriteId, postFav, getFav, resp>>

\* ------------------------------------------------------ JSON values
\* A JSON value of a request body as JavaScript sees it: its typeof and its
\* content.  Strings are sequences of character codes; a number n is <<n>>.
Undefined == [t |-> "undefined", v |-> <<>>]
Num(n) == [t |-> "number", v |-> <<n>>]
Str(codes) == [t |-> "string", v |-> codes]

IsDigit(c) == c >= 48 /\ c <= 57
IsSign(c) == c = 43 \/ c = 45

RECURSIVE DigitsValue(_)
\* value of a sequence of decimal digits
DigitsValue(s) ==
    IF s = <<>> THEN 0
    ELSE 10 * DigitsValue(SubSeq(s, 1, Len(s) - 1)) + (s[Len(s)] - 48)

RECURSIVE NatToString(_)
\* String(n) for a natural number n
NatToString(n) ==
    IF n < 10 THEN <<48 + n>>
    ELSE Append(NatToString(n \div 10), 48 + (n % 10))

\* express-validator's toString() of a field value before a validator runs
ValueToString(x) ==
    IF x.t = "undefined" THEN <<>>
    ELSE IF x.t = "number"
         THEN IF x.v[1] < 0 THEN <<45>> \o NatToString(0 - x.v[1])
              ELSE NatToString(x.v[1])
         ELSE x.v

\* /^[-+]?[0-9]+$/ : the pattern isInt uses when leading zeroes are allowed
MatchesInt(s) ==
    LET body == IF s # <<>> /\ IsSign(s[1]) THEN Tail(s) ELSE s
    IN  body # <<>> /\ \A i \in 1..Len(body) : IsDigit(body[i])

\* Number(s) of a string matching MatchesInt
IntStringValue(s) ==
    IF IsSign(s[1])
    THEN (IF s[1] = 45 THEN 0 - DigitsValue(Tail(s)) ELSE DigitsValue(Tail(s)))
    ELSE DigitsValue(s)

\* body(f).isInt({ min, max }) : validates the string form and changes nothing
IsInt(x, min, max) ==
    LET s == ValueToString(x)
    IN  MatchesInt(s) /\ IntStringValue(s) >= min /\ IntStringValue(s) <= max

\* NaN stands for itself; stored ratings always pass IsInt, so it is never met
NaN == 0 - 1000

\* Number(r.rating) on the read paths
ToNumber(x) ==
    IF x.t = "number" THEN x.v[1]
    ELSE IF x.t = "string" /\ MatchesInt(x.v) THEN IntStringValue(x.v)
    ELSE IF x.t = "string" /\ x.v = <<>> THEN 0
    ELSE NaN

\* typeof x === "number"
IsNumberType(x) == x.t = "number"

RECURSIVE StringLess(_, _)
\* binary (code point) order of two strings
StringLess(a, b) ==
    IF b = <<>> THEN FALSE
    ELSE IF a = <<>> THEN TRUE
    ELSE IF a[1] # b[1] THEN a[1] < b[1]
    ELSE StringLess(Tail(a), Tail(b))

\* BSON comparison order used by .sort(): numbers before strings, numbers by
\* value, strings by binary comparison
BsonLess(x, y) ==
    IF x.t = "number" /\ y.t = "number" THEN x.v[1] < y.v[1]
    ELSE IF x.t = "number" /\ y.t = "string" THEN TRUE
    ELSE IF x.t = "string" /\ y.t = "string" THEN StringLess(x.v, y.v)
    ELSE FALSE

\* ------------------------------------------------------ text fields
\* Text fields are TLA+ strings; Absent is a field the body does not carry.
Absent == "<absent>"
NotEmpty(s) == s # Absent /\ s # ""
EmailShaped == {"a@b.com", "c@d.com"}
IsEmail(s) == s \in EmailShaped

\* ------------------------------------------------------ identifiers
\* The 24-digit hexadecimal text of an ObjectId, in lower or upper case, and
\* texts that are no ObjectId at all.
Hex(n) == [k |-> "hex", n |-> n]
HexUpper(n) == [k |-> "HEX", n |-> n]
BadId == [k |-> "bad", n |-> 0]
EmptyId == [k |-> "empty", n |-> 0]
AbsentId == [k |-> "absent", n |-> 0]

\* whether new ObjectId(s) returns (otherwise it throws)
ObjectIdValid(s) == s.k \in {"hex", "HEX"}
\* new ObjectId(s) when it returns: both cases of the text give the same id
ObjectIdOf(s) == s.n
\* body("reviewId").notEmpty()
IdNotEmpty(s) == s.k \notin {"empty", "absent"}

\* ------------------------------------------------------ storage operations
InsertOne(coll, id, doc) == [i \in DOMAIN coll \cup {id} |-> IF i = id THEN doc ELSE coll[i]]
DeleteOne(coll, id) == [i \in DOMAIN coll \ {id} |-> coll[i]]
Matches(coll, id) == id \in DOMAIN coll

\* { $set: body } : every field the body carries overwrites the stored one
SetFields(doc, b) ==
    [foodName |-> IF b.foodName # Absent THEN b.foodName ELSE doc.foodName,
     foodImage |-> IF b.foodImage # Absent THEN b.foodImage ELSE doc.foodImage,
     restaurantName |-> IF b.restaurantName # Absent THEN b.restaurantName ELSE doc.restaurantName,
     rating |-> IF b.rating # Undefined THEN b.rating ELSE doc.rating,
     userEmail |-> IF b.userEmail # Absent THEN b.userEmail ELSE doc.userEmail]

UpdateOne(coll, id, b) == [coll EXCEPT ![id] = SetFields(coll[id], b)]

\* ------------------------------------------------------ validation
\* POST /reviews
ReviewErrors(b) ==
    {f \in {"foodName", "foodImage", "restaurantName"} : ~NotEmpty(b[f])}
    \cup (IF IsInt(b.rating, RatingMin, RatingMax) THEN {} ELSE {"rating"})
    \cup (IF IsEmail(b.userEmail) THEN {} ELSE {"userEmail"})

\* PUT /reviews/:id : .optional() skips a field the body does not carry
UpdateErrors(b) ==
    {f \in {"foodName", "foodImage", "restaurantName"} : b[f] # Absent /\ ~NotEmpty(b[f])}
    \cup (IF b.rating # Undefined /\ ~IsInt(b.rating, RatingMin, RatingMax)
          THEN {"rating"} ELSE {})

\* POST /favorites
FavoriteErrors(b) ==
    (IF IsEmail(b.userEmail) THEN {} ELSE {"userEmail"})
    \cup (IF IdNotEmpty(b.reviewId) THEN {} ELSE {"reviewId"})

\* handleValidationErrors, mutated: next() is called whatever the errors
HandleValidationErrorsAlways(errors) == TRUE
\* handleValidationErrors: TRUE when next() is called, FALSE when it answers 400
HandleValidationErrors(errors) == errors = {}

\* ------------------------------------------------------ requests
NoBody == [foodName |-> Absent, foodImage |-> Absent, restaurantName |-> Absent,
           rating |-> Undefined, userEmail |-> Absent]
Request(id, b) == [id |-> id, b |-> b]
\* step: "handler" for the synchronous part of a route (validators and handler
\* up to its first await), "callback" for a later step of its promise chain
NoResponse == [route |-> "none", step |-> "none", status |-> 0,
               req |-> Request(AbsentId, NoBody), body |-> <<>>, unset |-> FALSE]
Response(route, status, req, body) ==
    [route |-> route, step |-> "handler", status |-> status, req |-> req,
     body |-> body, unset |-> FALSE]
\* a handler that dereferences a collection handle nobody has assigned yet
\* throws a TypeError, which is answered 500
UnsetFailure(route, req) ==
    [route |-> route, step |-> "handler", status |-> 500, req |-> req,
     body |-> <<>>, unset |-> TRUE]

\* a step of a promise chain after its first await: the chain keeps its own
\* record, and resp names the route it belongs to
Continued(route) ==
    [route |-> route, step |-> "callback", status |-> 0,
     req |-> Request(AbsentId, NoBody), body |-> <<>>, unset |-> FALSE]

\* what the read paths send for a stored review: { ...r, rating: Number(r.rating) }
ReviewView(id, doc) == [id |-> id, rating |-> ToNumber(doc.rating), doc |-> doc]

\* ------------------------------------------------------ inputs
RatingInputs ==
    {Num(3), Num(5), Num(6), Str(<<52>>), Str(<<120>>), Undefined}
ValidReview == [foodName |-> "Taco", foodImage |-> "x.png", restaurantName |-> "Joe's",
                rating |-> Num(5), userEmail |-> "a@b.com"]
\* a well-formed body with each rating, and bodies breaking one rule each
ReviewBodies ==
    {[ValidReview EXCEPT !.rating = r] : r \in RatingInputs}
    \cup {[ValidReview EXCEPT !.foodName = ""],
          [ValidReview EXCEPT !.foodImage = Absent],
          [ValidReview EXCEPT !.restaurantName = ""],
          [ValidReview EXCEPT !.userEmail = "nope"]}
UpdateBodies ==
    {[NoBody EXCEPT !.rating = r] : r \in RatingInputs \ {Undefined}}
    \cup {[NoBody EXCEPT !.foodName = "Pizza"],
          [NoBody EXCEPT !.foodName = ""],
          [NoBody EXCEPT !.restaurantName = ""],
          [NoBody EXCEPT !.foodImage = "", !.rating = Num(3)]}
PathIds == {Hex(n) : n \in 1..(MaxReviews + 1)} \cup {HexUpper(1), BadId}

\* ------------------------------------------------------ the process
EmptyCollection == [i \in {} |-> NoBody]
IdlePost == [pc |-> "idle", userEmail |-> Absent, reviewId |-> AbsentId,
             exists |-> FALSE, attempts |-> <<>>, sent |-> <<>>, errors |-> <<>>]
IdleGet == [pc |-> "idle", status |-> 0, email |-> Absent, deleted |-> {},
            favs |-> <<>>, found |-> <<>>]

Init ==
    /\ proc = "running"
    /\ dbpc = "connecting"
    /\ handles = "unset"
    /\ reviews = EmptyCollection
    /\ nextReviewId = 1
    /\ favorites = EmptyCollection
    /\ nextFavoriteId = 1
    /\ postFav = [s \in 1..MaxRequests |-> IdlePost]
    /\ getFav = IdleGet
    /\ resp = NoResponse

\* connectDB: client.connect() resolves, the handles are assigned and
\* createIndex is issued
ConnectResolve ==
    /\ proc = "running" /\ dbpc = "connecting"
    /\ handles' = "bound"
    /\ dbpc' = "indexing"
    /\ resp' = NoResponse
    /\ UNCHANGED <<proc, reviews, nextReviewId, favorites, nextFavoriteId, postFav, getFav>>

\* connectDB: createIndex resolves
IndexResolve ==
    /\ proc = "running" /\ dbpc = "indexing"
    /\ dbpc' = "connected"
    /\ resp' = NoResponse
    /\ UNCHANGED <<proc, handles, reviews, nextReviewId, favorites, nextFavoriteId, postFav, getFav>>

\* connectDB: connect() or createIndex() rejects: process.exit(1)
ConnectFail ==
    /\ proc = "running" /\ dbpc \in {"connecting", "indexing"}
    /\ proc' = "exited"
    /\ dbpc' = "failed"
    /\ resp' = NoResponse
    /\ UNCHANGED <<handles, reviews, nextReviewId, favorites, nextFavoriteId, postFav, getFav>>

\* ------------------------------------------------------ review routes
\* POST /reviews
PostReviews(bodies) ==
    \E b \in bodies :
        /\ proc = "running"
        /\ IF ~HandleValidationErrors(ReviewErrors(b))
           THEN /\ resp' = Response("POST /reviews", 400, Request(AbsentId, b), <<>>)
                /\ UNCHANGED <<reviews, nextReviewId>>
           ELSE IF handles = "unset"
           THEN /\ resp' = UnsetFailure("POST /reviews", Request(AbsentId, b))
                /\ UNCHANGED <<reviews, nextReviewId>>
           ELSE /\ nextReviewId <= MaxReviews
                /\ reviews' = InsertOne(reviews, nextReviewId, b)
                /\ nextReviewId' = nextReviewId + 1
                /\ resp' = Response("POST /reviews", 201, Request(AbsentId, b), <<>>)
        /\ UNCHANGED <<proc, dbpc, handles, favorites, nextFavoriteId, postFav, getFav>>

\* PUT /reviews/:id
PutReviews(bodies) ==
    \E id \in PathIds, b \in bodies :
        /\ proc = "running"
        /\ IF ~HandleValidationErrors(UpdateErrors(b))
           THEN /\ resp' = Response("PUT /reviews/:id", 400, Request(id, b), <<>>)
                /\ UNCHANGED reviews
           ELSE IF handles = "unset"
           THEN /\ resp' = UnsetFailure("PUT /reviews/:id", Request(id, b))
                /\ UNCHANGED reviews
           ELSE IF ~ObjectIdValid(id)
           THEN /\ resp' = Response("PUT /reviews/:id", 500, Request(id, b), <<>>)
                /\ UNCHANGED reviews
           ELSE IF ~Matches(reviews, ObjectIdOf(id))
           THEN /\ resp' = Response("PUT /reviews/:id", 404, Request(id, b), <<>>)
                /\ UNCHANGED reviews
           ELSE /\ reviews' = UpdateOne(reviews, ObjectIdOf(id), b)
                /\ resp' = Response("PUT /reviews/:id", 200, Request(id, b), <<>>)
        /\ UNCHANGED <<proc, dbpc, handles, nextReviewId, favorites, nextFavoriteId, postFav, getFav>>

\* DELETE /reviews/:id
DeleteReviews ==
    \E id \in PathIds :
        /\ proc = "running"
        /\ IF handles = "unset"
           THEN /\ resp' = UnsetFailure("DELETE /reviews/:id", Request(id, NoBody))
                /\ UNCHANGED reviews
           ELSE IF ~ObjectIdValid(id)
           THEN /\ resp' = Response("DELETE /reviews/:id", 500, Request(id, NoBody), <<>>)
                /\ UNCHANGED reviews
           ELSE IF ~Matches(reviews, ObjectIdOf(id))
           THEN /\ resp' = Response("DELETE /reviews/:id", 404, Request(id, NoBody), <<>>)
                /\ UNCHANGED reviews
           ELSE /\ reviews' = DeleteOne(reviews, ObjectIdOf(id))
                /\ resp' = Response("DELETE /reviews/:id", 200, Request(id, NoBody), <<>>)
        /\ UNCHANGED <<proc, dbpc, handles, nextReviewId, favorites, nextFavoriteId, postFav, getFav>>

\* the answer of GET /reviews/:id in a state whose reviews collection is coll
ReviewById(coll, id) ==
    IF ~ObjectIdValid(id)
    THEN Response("GET /reviews/:id", 500, Request(id, NoBody), <<>>)
    ELSE IF ~Matches(coll, ObjectIdOf(id))
    THEN Response("GET /reviews/:id", 404, Request(id, NoBody), <<>>)
    ELSE Response("GET /reviews/:id", 200, Request(id, NoBody),
                  <<ReviewView(ObjectIdOf(id), coll[ObjectIdOf(id)])>>)

\* GET /reviews/:id
GetReviewById ==
    \E id \in PathIds :
        /\ proc = "running"
        /\ resp' = IF handles = "unset"
                   THEN UnsetFailure("GET /reviews/:id", Request(id, NoBody))
                   ELSE ReviewById(reviews, id)
        /\ UNCHANGED <<proc, dbpc, handles, reviews, nextReviewId, favorites,
                       nextFavoriteId, postFav, getFav>>

Min(a, b) == IF a < b THEN a ELSE b

\* find().sort({ rating: -1 }).limit(n): every order the storage may return.
\* Documents that compare equal come in an order the storage does not fix.
SortLimit(coll, n) ==
    LET k == Min(Cardinality(DOMAIN coll), n)
    IN  {s \in [1..k -> DOMAIN coll] :
            /\ \A i, j \in 1..k : i < j =>
                   /\ s[i] # s[j]
                   /\ ~BsonLess(coll[s[i]].rating, coll[s[j]].rating)
            /\ \A x \in DOMAIN coll : (\A i \in 1..k : s[i] # x) =>
                   \A i \in 1..k : ~BsonLess(coll[s[i]].rating, coll[x].rating)}

\* GET /reviews/top
GetTopReviews ==
    /\ proc = "running"
    /\ IF handles = "unset"
       THEN resp' = UnsetFailure("GET /reviews/top", Request(AbsentId, NoBody))
       ELSE \E s \in SortLimit(reviews, TopLimit) :
               resp' = Response("GET /reviews/top", 200, Request(AbsentId, NoBody),
                                [i \in 1..Len(s) |-> ReviewView(s[i], reviews[s[i]])])
    /\ UNCHANGED <<proc, dbpc, handles, reviews, nextReviewId, favorites,
                   nextFavoriteId, postFav, getFav>>

NextReviews ==
    \/ ConnectResolve
    \/ IndexResolve
    \/ ConnectFail
    \/ PostReviews(ReviewBodies)
    \/ PutReviews(UpdateBodies)
    \/ DeleteReviews
    \/ GetReviewById
    \/ GetTopReviews

\* the review routes alone
SpecReviews == Init /\ [][NextReviews]_vars

\* ------------------------------------------------------ favorite routes
FavoriteInputs ==
    [userEmail : {"a@b.com", "c@d.com", "nope"},
     reviewId : {Hex(1), BadId, EmptyId}]
\* the bodies of the requests that race: one user, two review identifiers
RacingInputs ==
    [userEmail : {"a@b.com", "nope"}, reviewId : {Hex(1), BadId, EmptyId}]
FavoritePathIds == {Hex(n) : n \in 1..MaxFavorites} \cup {BadId}
FavoriteRequest(b) == Request(b.reviewId, [NoBody EXCEPT !.userEmail = b.userEmail])

\* findOne({ userEmail, reviewId }), mutated: the filter names a field no
\* favorite has, so nothing is ever found
FavoriteExistsWrongField(coll, userEmail, reviewId) == FALSE
\* findOne({ userEmail, reviewId }) on the favorites collection, as a boolean
FavoriteExists(coll, userEmail, reviewId) ==
    \E i \in DOMAIN coll :
        coll[i].userEmail = userEmail /\ coll[i].reviewId = reviewId

\* res.status(code).json(value) on the response of chain r.  JSON.stringify
\* throws on a value that is not serializable (a circular structure); res.send
\* throws ERR_HTTP_HEADERS_SENT once a response has been written.
Json(r, code, serializable) ==
    IF ~serializable
    THEN [r EXCEPT !.attempts = Append(@, code), !.errors = Append(@, "TypeError")]
    ELSE IF r.sent # <<>>
    THEN [r EXCEPT !.attempts = Append(@, code),
                   !.errors = Append(@, "ERR_HTTP_HEADERS_SENT")]
    ELSE [r EXCEPT !.attempts = Append(@, code), !.sent = Append(@, code)]

\* .catch(() => res.status(500).json(...))
Catch(r) == Json(r, 500, TRUE)

\* .then((result) => result && res.status(201).json(result)), then .catch.
\* result is what the first .then returned: the insertion result, or the
\* response object res that res.status(400).json(...) returns, which is truthy
\* and circular.
SecondThen(r, result) ==
    LET t == IF result # "undefined" THEN Json(r, 201, result # "res") ELSE r
    IN  IF Len(t.errors) > Len(r.errors) THEN Catch(t) ELSE t

\* whether the first .then inserts, mutated: the early return is missing
InsertsAlways(exists) == TRUE
\* the first .then inserts unless findOne found a favorite
Inserts(exists) == ~exists

\* the slot a new POST /favorites chain takes: the first one with no chain
\* between two awaits
Busy(r) == r.pc \in {"findOne", "insertOne"}
FreeSlot == CHOOSE s \in 1..MaxRequests :
                /\ ~Busy(postFav[s])
                /\ \A t \in 1..(s - 1) : Busy(postFav[t])

\* POST /favorites, up to the findOne it issues.  sequential: the request
\* starts only when no other POST /favorites is between two awaits.  A request
\* answered at once is recorded in resp; one that reaches the storage is
\* recorded in its slot of postFav, and resp names only the route.
PostFavoritesStart(sequential, inputs) ==
    \E b \in inputs :
        /\ proc = "running"
        /\ IF ~HandleValidationErrors(FavoriteErrors(b))
           THEN /\ resp' = Response("POST /favorites", 400, FavoriteRequest(b), <<>>)
                /\ UNCHANGED postFav
           ELSE IF handles = "unset"
           THEN /\ resp' = UnsetFailure("POST /favorites", FavoriteRequest(b))
                /\ UNCHANGED postFav
           ELSE /\ \E s \in 1..MaxRequests : ~Busy(postFav[s])
                /\ sequential => \A s \in 1..MaxRequests : ~Busy(postFav[s])
                /\ postFav' = [postFav EXCEPT ![FreeSlot] =
                                  [IdlePost EXCEPT !.pc = "findOne",
                                                   !.userEmail = b.userEmail,
                                                   !.reviewId = b.reviewId]]
                /\ resp' = Response("POST /favorites", 0, FavoriteRequest(b), <<>>)
        /\ UNCHANGED <<proc, dbpc, handles, reviews, nextReviewId, favorites,
                       nextFavoriteId, getFav>>

\* POST /favorites: findOne resolves and the first .then runs.  On a favorite
\* found it answers 400 and returns res, the second .then and the .catch follow
\* in the same turn, and a rejection nobody handles ends the process or not,
\* as the runtime is configured.
PostFavoritesFound ==
    \E s \in 1..MaxRequests :
        LET r == postFav[s]
            exists == FavoriteExists(favorites, r.userEmail, r.reviewId)
            first == Json([r EXCEPT !.exists = exists], 400, TRUE)
            last == SecondThen(first, "res")
        IN  /\ proc = "running"
            /\ r.pc = "findOne"
            /\ IF Inserts(exists)
               THEN /\ postFav' = [postFav EXCEPT ![s] =
                                      [r EXCEPT !.exists = exists, !.pc = "insertOne"]]
                    /\ UNCHANGED proc
               ELSE /\ postFav' = [postFav EXCEPT ![s] = [last EXCEPT !.pc = "done"]]
                    /\ IF Len(last.errors) > Len(first.errors) + 1
                       THEN proc' \in {"running", "exited"}
                       ELSE UNCHANGED proc
            /\ resp' = Continued("POST /favorites")
            /\ UNCHANGED <<dbpc, handles, reviews, nextReviewId, favorites,
                           nextFavoriteId, getFav>>

\* POST /favorites: insertOne resolves and the second .then answers 201
PostFavoritesInserted ==
    \E s \in 1..MaxRequests :
        LET r == postFav[s]
        IN  /\ proc = "running"
            /\ r.pc = "insertOne"
            /\ nextFavoriteId <= MaxFavorites
            /\ favorites' = InsertOne(favorites, nextFavoriteId,
                                      [userEmail |-> r.userEmail, reviewId |-> r.reviewId])
            /\ nextFavoriteId' = nextFavoriteId + 1
            /\ postFav' = [postFav EXCEPT ![s] =
                              [SecondThen(r, "insertResult") EXCEPT !.pc = "done"]]
            /\ resp' = Continued("POST /favorites")
            /\ UNCHANGED <<proc, dbpc, handles, reviews, nextReviewId, getFav>>

\* DELETE /favorites/:id
DeleteFavorites ==
    \E id \in FavoritePathIds :
        /\ proc = "running"
        /\ IF handles = "unset"
           THEN /\ resp' = UnsetFailure("DELETE /favorites/:id", Request(id, NoBody))
                /\ UNCHANGED favorites
           ELSE IF ~ObjectIdValid(id)
           THEN /\ resp' = Response("DELETE /favorites/:id", 500, Request(id, NoBody), <<>>)
                /\ UNCHANGED favorites
           ELSE IF ~Matches(favorites, ObjectIdOf(id))
           THEN /\ resp' = Response("DELETE /favorites/:id", 404, Request(id, NoBody), <<>>)
                /\ UNCHANGED favorites
           ELSE /\ favorites' = DeleteOne(favorites, ObjectIdOf(id))
                /\ resp' = Response("DELETE /favorites/:id", 200, Request(id, NoBody), <<>>)
        /\ UNCHANGED <<proc, dbpc, handles, reviews, nextReviewId, nextFavoriteId,
                       postFav, getFav>>

NextSequential ==
    \/ ConnectResolve
    \/ IndexResolve
    \/ ConnectFail
    \/ PostFavoritesStart(TRUE, FavoriteInputs)
    \/ PostFavoritesFound
    \/ PostFavoritesInserted
    \/ DeleteFavorites

\* POST /favorites one request at a time
SpecSequential == Init /\ [][NextSequential]_vars

NextConcurrent ==
    \/ ConnectResolve
    \/ IndexResolve
    \/ ConnectFail
    \/ PostFavoritesStart(FALSE, RacingInputs)
    \/ PostFavoritesFound
    \/ PostFavoritesInserted
    \/ DeleteFavorites

\* POST /favorites requests interleaved at their storage awaits
SpecConcurrent == Init /\ [][NextConcurrent]_vars

\* ------------------------------------------------------ GET /favorites/:email
JoinInputs ==
    [userEmail : {"a@b.com", "nope"},
     reviewId : {Hex(1), BadId}]
JoinEmails == {"a@b.com", "c@d.com"}

\* find({ userEmail }).toArray(): the favorites of an email, in _id order,
\* each with its _id
FindByEmail(coll, email) ==
    LET ids == {i \in DOMAIN coll : coll[i].userEmail = email}
        order == CHOOSE q \in [1..Cardinality(ids) -> ids] :
                     \A i, j \in 1..Cardinality(ids) : i < j => q[i] < q[j]
    IN  [i \in 1..Cardinality(ids) |->
            [id |-> order[i], userEmail |-> email, reviewId |-> coll[order[i]].reviewId]]

\* findOne({ _id }) on the reviews collection: the _id found, 0 for null
FindReview(coll, id) == IF Matches(coll, id) THEN id ELSE 0

Pending == 0 - 1

\* GET /favorites/:email, up to the find it issues.  deleted remembers which
\* reviews were already deleted when the request arrived.
GetFavoritesStart ==
    \E e \in JoinEmails :
        /\ proc = "running"
        /\ getFav.pc \in {"idle", "done"}
        /\ IF handles = "unset"
           THEN /\ resp' = UnsetFailure("GET /favorites/:email",
                                        Request(AbsentId, [NoBody EXCEPT !.userEmail = e]))
                /\ UNCHANGED getFav
           ELSE /\ getFav' = [IdleGet EXCEPT !.pc = "find", !.email = e,
                                             !.deleted = (1..(nextReviewId - 1)) \ DOMAIN reviews]
                /\ resp' = Response("GET /favorites/:email", 0,
                                    Request(AbsentId, [NoBody EXCEPT !.userEmail = e]), <<>>)
        /\ UNCHANGED <<proc, dbpc, handles, reviews, nextReviewId, favorites,
                       nextFavoriteId, postFav>>

\* GET /favorites/:email: find resolves and favorites.map runs.  new ObjectId
\* of a text that is no ObjectId throws inside the .then, the chain rejects and
\* the .catch answers 500 for the whole list.  An empty list is answered at once.
GetFavoritesFound ==
    LET favs == FindByEmail(favorites, getFav.email)
    IN  /\ proc = "running"
        /\ getFav.pc = "find"
        /\ getFav' =
              IF \E i \in 1..Len(favs) : ~ObjectIdValid(favs[i].reviewId)
              THEN [getFav EXCEPT !.pc = "done", !.status = 500, !.favs = favs]
              ELSE IF favs = <<>>
              THEN [getFav EXCEPT !.pc = "done", !.status = 200]
              ELSE [getFav EXCEPT !.pc = "join", !.favs = favs,
                                  !.found = [i \in 1..Len(favs) |-> Pending]]
        /\ resp' = Continued("GET /favorites/:email")
        /\ UNCHANGED <<proc, dbpc, handles, reviews, nextReviewId, favorites,
                       nextFavoriteId, postFav>>

\* GET /favorites/:email: one of the findOne lookups resolves; after the last
\* one Promise.all resolves and the list is answered 200
GetFavoritesLookup ==
    \E i \in 1..Len(getFav.found) :
        LET found == [getFav.found EXCEPT ![i] =
                         FindReview(reviews, ObjectIdOf(getFav.favs[i].reviewId))]
        IN  /\ proc = "running"
            /\ getFav.pc = "join"
            /\ getFav.found[i] = Pending
            /\ getFav' =
                  IF \A j \in 1..Len(found) : found[j] # Pending
                  THEN [getFav EXCEPT !.found = found, !.pc = "done", !.status = 200]
                  ELSE [getFav EXCEPT !.found = found]
            /\ resp' = Continued("GET /favorites/:email")
            /\ UNCHANGED <<proc, dbpc, handles, reviews, nextReviewId, favorites,
                           nextFavoriteId, postFav>>

NextJoin ==
    \/ ConnectResolve
    \/ IndexResolve
    \/ ConnectFail
    \/ PostReviews({ValidReview})
    \/ DeleteReviews
    \/ PostFavoritesStart(TRUE, JoinInputs)
    \/ PostFavoritesFound
    \/ PostFavoritesInserted
    \/ DeleteFavorites
    \/ GetFavoritesStart
    \/ GetFavoritesFound
    \/ GetFavoritesLookup

\* favorites listed while reviews come and go
SpecJoin == Init /\ [][NextJoin]_vars

\* ------------------------------------------------------ validated routes
\* one well-formed body per route and bodies breaking each declared rule
NextValidated ==
    \/ ConnectResolve
    \/ IndexResolve
    \/ ConnectFail
    \/ PostReviews({b \in ReviewBodies : b = ValidReview \/ ReviewErrors(b) # {}})
    \/ PutReviews({b \in UpdateBodies : b.rating = Num(3) \/ UpdateErrors(b) # {}})
    \/ PostFavoritesStart(TRUE, RacingInputs)
    \/ PostFavoritesFound
    \/ PostFavoritesInserted

\* the three routes that declare field constraints
SpecValidated == Init /\ [][NextValidated]_vars

\* ====================================================== properties

SamePair(f, g) == f.userEmail = g.userEmail /\ f.reviewId = g.reviewId
AtMostOnePerPair ==
    \A i, j \in DOMAIN favorites : SamePair(favorites[i], favorites[j]) => i = j
\* the step in which the findOne of chain s resolves
FindOneResolves(s) == postFav[s].pc = "findOne" /\ postFav'[s].pc # "findOne"
DuplicateRejected ==
    \A s \in 1..MaxRequests :
        (FindOneResolves(s) /\ \E i \in DOMAIN favorites : SamePair(favorites[i], postFav[s]))
        => /\ postFav'[s].pc = "done"
           /\ postFav'[s].sent = <<400>>
           /\ favorites' = favorites

\* C1: with POST /favorites requests run one after the other, the favorites
\* collection never holds two favorites of one (userEmail, reviewId) pair, and
\* a POST /favorites whose pair is already in the collection when its findOne
\* runs is answered 400 and inserts nothing.
C1_SequentialUniqueness == []AtMostOnePerPair /\ [][DuplicateRejected]_vars

\* a second POST /favorites of a stored pair has been answered 400
C1_Witness ==
    \E s \in 1..MaxRequests :
        /\ postFav[s].pc = "done"
        /\ postFav[s].sent = <<400>>
        /\ Cardinality({i \in DOMAIN favorites : SamePair(favorites[i], postFav[s])}) = 1

\* C2: every stored review's rating is of number type.
C2_RatingsAreNumbers == \A i \in DOMAIN reviews : IsNumberType(reviews[i].rating)

Rejected ==
    /\ resp'.status = 400
    /\ reviews' = reviews
    /\ favorites' = favorites
    /\ postFav' = postFav
    /\ nextReviewId' = nextReviewId
    /\ nextFavoriteId' = nextFavoriteId
RejectsInvalid ==
    /\ (resp'.route = "POST /reviews" /\ ReviewErrors(resp'.req.b) # {}) => Rejected
    /\ (resp'.route = "PUT /reviews/:id" /\ UpdateErrors(resp'.req.b) # {}) => Rejected
    /\ (resp'.route = "POST /favorites" /\ resp'.step = "handler"
        /\ FavoriteErrors([userEmail |-> resp'.req.b.userEmail,
                           reviewId |-> resp'.req.id]) # {}) => Rejected

\* C3: a request to POST /reviews, PUT /reviews/:id or POST /favorites whose
\* body breaks a declared rule is answered 400, starts no promise chain and
\* leaves both collections as they were.
C3_InvalidBodyRejected == [][RejectsInvalid]_vars

\* an update with a rating out of range was refused while a review was stored
C3_Witness ==
    /\ resp.route = "PUT /reviews/:id"
    /\ resp.status = 400
    /\ "rating" \in UpdateErrors(resp.req.b)
    /\ handles = "bound"
    /\ Matches(reviews, ObjectIdOf(resp.req.id))

\* C4: GET /reviews/top returns at most 6 reviews, and the ratings it returns
\* never increase along the list.
C4_TopSorted ==
    (resp.route = "GET /reviews/top" /\ resp.status = 200)
    => /\ Len(resp.body) <= TopLimit
       /\ \A i, j \in 1..Len(resp.body) :
              i < j => resp.body[i].rating >= resp.body[j].rating

\* favorite i of the finished listing points at a review that was deleted
\* before the listing was asked for
Orphan(i) ==
    /\ ObjectIdValid(getFav.favs[i].reviewId)
    /\ ObjectIdOf(getFav.favs[i].reviewId) \in getFav.deleted
DeleteKeepsFavorites ==
    resp'.route = "DELETE /reviews/:id" => favorites' = favorites
ListingAfterDelete ==
    (getFav.pc = "done" /\ \E i \in 1..Len(getFav.favs) : Orphan(i))
    => /\ getFav.status = 200
       /\ Len(getFav.found) = Len(getFav.favs)
       /\ \A i \in 1..Len(getFav.favs) : Orphan(i) => getFav.found[i] = 0

\* C5: DELETE /reviews/:id changes no favorite, and a GET /favorites/:email
\* that lists a favorite whose review was deleted is answered 200 with one
\* record per favorite, the review of the orphaned one being null.
C5_ListingSurvivesDelete == [][DeleteKeepsFavorites]_vars /\ []ListingAfterDelete

DeleteFrame ==
    (resp'.route = "DELETE /reviews/:id" /\ ObjectIdValid(resp'.req.id))
    => LET n == ObjectIdOf(resp'.req.id)
       IN  IF Matches(reviews, n)
           THEN /\ DOMAIN reviews' = DOMAIN reviews \ {n}
                /\ \A m \in DOMAIN reviews \ {n} :
                       /\ reviews'[m] = reviews[m]
                       /\ ReviewById(reviews', Hex(m)).status = 200
                       /\ ReviewById(reviews', Hex(m)).body = <<ReviewView(m, reviews[m])>>
           ELSE /\ resp'.status = 404
                /\ reviews' = reviews

\* C6: DELETE /reviews/:id of a stored review removes that review alone and
\* leaves every other review as it was and retrievable by GET /reviews/:id;
\* with a well-formed identifier that matches no review it is answered 404 and
\* changes nothing.
C6_DeleteExactlyOne == [][DeleteFrame]_vars

\* the same, for the requests that arrive once the handles are assigned
C6_DeleteOnceBound == [][handles = "bound" => DeleteFrame]_vars

\* C7: a favorite whose reviewId is no ObjectId does not abort the listing:
\* GET /favorites/:email is answered 200 with one record per favorite and a
\* null review for that favorite.
C7_MalformedIsolated ==
    (getFav.pc = "done" /\ \E i \in 1..Len(getFav.favs) : ~ObjectIdValid(getFav.favs[i].reviewId))
    => /\ getFav.status = 200
       /\ Len(getFav.found) = Len(getFav.favs)
       /\ \A i \in 1..Len(getFav.favs) :
              ~ObjectIdValid(getFav.favs[i].reviewId) => getFav.found[i] = 0

\* C8: a request is worked on only after connectDB has assigned the handles
\* and created the index, and no handler ever meets an unset handle.
C8_ConnectedBeforeRequests ==
    /\ resp.route # "none" => (handles = "bound" /\ dbpc = "connected")
    /\ ~resp.unset

\* C9: a POST /favorites request is answered 201 only if its findOne found no
\* favorite of its pair, and 201 is then the only response it attempts; two
\* such requests of one pair can both get there (C9_Witness).
C9_CreatedOnlyAfterPassingCheck ==
    \A s \in 1..MaxRequests :
        (postFav[s].pc = "done" /\ \E k \in 1..Len(postFav[s].sent) : postFav[s].sent[k] = 201)
        => ~postFav[s].exists /\ postFav[s].attempts = <<201>>

\* two requests of one pair both passed the existence check, both inserted and
\* both were answered 201: the collection holds the pair twice
C9_Witness ==
    \E s, t \in 1..MaxRequests :
        /\ s # t
        /\ SamePair(postFav[s], postFav[t])
        /\ postFav[s].pc = "done" /\ postFav[t].pc = "done"
        /\ ~postFav[s].exists /\ ~postFav[t].exists
        /\ postFav[s].sent = <<201>> /\ postFav[t].sent = <<201>>
        /\ Cardinality({i \in DOMAIN favorites : SamePair(favorites[i], postFav[s])}) = 2

\* C10: a POST /favorites request that passed validation attempts exactly one
\* response and raises no error.
C10_SingleResponse ==
    \A s \in 1..MaxRequests :
        postFav[s].pc = "done" => (Len(postFav[s].attempts) = 1 /\ postFav[s].errors = <<>>)

====
